---- MODULE Spec2Model ----
(***************************************************************************)
(* BookGX backend (src/server.js): an Express server relaying four POST    *)
(* endpoints to the Google Sheets API with caller-supplied service-account *)
(* credentials.  A request slot r is one HTTP exchange.  Node runs every   *)
(* callback to completion, so each action is the code between two awaits.  *)
(***************************************************************************)
EXTENDS Integers, Sequences, FiniteSets, TLC

VARIABLES
    req,        \* req[r]: the handler's position and locals for exchange r
    clients,    \* clients[r]: the GoogleAuth credentials built for r, in order
    calls,      \* calls[r]: the upstream calls issued for r, in order
    upstream,   \* upstream[r]: how the upstream call of r settled
    responses   \* responses[r]: the responses written for r, in order

vars == <<req, clients, calls, upstream, responses>>

(***************************************************************************)
(* Bounds of the model.                                                    *)
(***************************************************************************)
MaxInFlight == 2     \* exchanges in flight together (Spec)
MaxCellLen == 2      \* characters in a header cell
MaxCols == 2         \* cells in an upstream row
MaxRows == 2         \* rows in an upstream value set (fetchData)
MaxSheets == 2       \* sheets in an upstream spreadsheet

(***************************************************************************)
(* JavaScript values.  A value is tagged with its type; a string is either *)
(* a tuple of characters (where the code looks inside it) or opaque text.  *)
(***************************************************************************)
Undef == [t |-> "undefined"]
Str(s) == [t |-> "string", v |-> s]
Num(n) == [t |-> "number", v |-> n]
Arr(s) == [t |-> "array", v |-> s]

\* JavaScript truthiness, as used by `!x`, `x || y`, `x ? a : b`, `x && y`.
Truthy(x) ==
    CASE x.t = "undefined" -> FALSE
      [] x.t = "string" -> Len(x.v) > 0
      [] x.t = "number" -> x.v # 0
      [] OTHER -> TRUE

\* x === n for a number literal n.
StrictEqNum(x, n) == x.t = "number" /\ x.v = n

\* a || b
Or(a, b) == IF Truthy(a) THEN a ELSE b

(***************************************************************************)
(* createSheetsClient (lines 34-58).                                       *)
(***************************************************************************)
\* privateKey.replace(/\\n/g, "\n"): every backslash followed by n becomes
\* one newline character, scanning left to right.
RECURSIVE ReplaceEscapedNewlines(_)
ReplaceEscapedNewlines(s) ==
    IF Len(s) < 2 THEN s
    ELSE IF s[1] = "\\" /\ s[2] = "n"
         THEN <<"\n">> \o ReplaceEscapedNewlines(SubSeq(s, 3, Len(s)))
         ELSE <<s[1]>> \o ReplaceEscapedNewlines(Tail(s))

ReadonlyScopes ==
    <<"https://www.googleapis.com/auth/spreadsheets.readonly",
      "https://www.googleapis.com/auth/drive.readonly">>

\* Calling .replace on a value that is no string throws a TypeError.
ReplaceTypeError ==
    [code |-> Undef,
     message |-> Str("serviceAccount.privateKey.replace is not a function")]

\* The settled promise of createSheetsClient.  authThrown is what the
\* GoogleAuth constructor throws (Undef: nothing); the catch rethrows it.
createSheetsClient(serviceAccount, authThrown) ==
    IF serviceAccount.privateKey.t # "string"
    THEN [ok |-> FALSE, error |-> ReplaceTypeError]
    ELSE IF authThrown # Undef
    THEN [ok |-> FALSE, error |-> authThrown]
    ELSE [ok |-> TRUE,
          sheets |-> [version |-> "v4",
                      client_email |-> serviceAccount.clientEmail,
                      private_key |->
                          Str(ReplaceEscapedNewlines(serviceAccount.privateKey.v)),
                      project_id |-> serviceAccount.projectId,
                      scopes |-> ReadonlyScopes]]

(***************************************************************************)
(* Request validation.                                                     *)
(***************************************************************************)
\* Reading a property: a body field that is no object has no such property.
Prop(x, f) == IF x.t = "object" THEN x[f] ELSE Undef

\* Faulty variant: the projectId check is forgotten.
CredentialsMissingNoProjectId(connection) ==
    \/ ~Truthy(connection)
    \/ ~Truthy(Prop(connection, "clientEmail"))
    \/ ~Truthy(Prop(connection, "privateKey"))

\* !connection || !connection.clientEmail || !connection.privateKey ||
\* !connection.projectId   (lines 74-79, 159-164, 242-247, 316-321)
CredentialsMissing(connection) ==
    \/ ~Truthy(connection)
    \/ ~Truthy(Prop(connection, "clientEmail"))
    \/ ~Truthy(Prop(connection, "privateKey"))
    \/ ~Truthy(Prop(connection, "projectId"))

CredentialsRequired ==
    [status |-> 400,
     body |-> [error |-> Str("Service account credentials are required (clientEmail, privateKey, projectId)")]]

SpreadsheetIdRequired ==
    [status |-> 400, body |-> [error |-> Str("spreadsheetId is required")]]

SheetNameRequired ==
    [status |-> 400,
     body |-> [error |-> Str("spreadsheetId and sheetName are required")]]

\* The early return of a handler: the 400 response, or Undef when the body
\* passes.
fetchSheetsValidate(body) ==
    IF ~Truthy(body.spreadsheetId) THEN SpreadsheetIdRequired
    ELSE IF CredentialsMissing(body.connection) THEN CredentialsRequired
    ELSE Undef

fetchHeadersValidate(body) ==
    IF ~Truthy(body.spreadsheetId) \/ ~Truthy(body.sheetName)
    THEN SheetNameRequired
    ELSE IF CredentialsMissing(body.connection) THEN CredentialsRequired
    ELSE Undef

fetchDataValidate(body) ==
    IF ~Truthy(body.spreadsheetId) \/ ~Truthy(body.sheetName)
    THEN SheetNameRequired
    ELSE IF CredentialsMissing(body.connection) THEN CredentialsRequired
    ELSE Undef

testAccessValidate(body) ==
    IF ~Truthy(body.spreadsheetId) THEN SpreadsheetIdRequired
    ELSE IF CredentialsMissing(body.connection) THEN CredentialsRequired
    ELSE Undef

Validate(ep, body) ==
    CASE ep = "fetchSheets" -> fetchSheetsValidate(body)
      [] ep = "fetchHeaders" -> fetchHeadersValidate(body)
      [] ep = "fetchData" -> fetchDataValidate(body)
      [] ep = "testAccess" -> testAccessValidate(body)

\* The object literal handed to createSheetsClient.
ServiceAccount(connection) ==
    [clientEmail |-> connection.clientEmail,
     privateKey |-> connection.privateKey,
     projectId |-> connection.projectId]

(***************************************************************************)
(* The upstream call each handler issues.                                  *)
(***************************************************************************)
\* A template literal `${a}!${b}` over two strings.
Bang(a, b) == Str(a.v \o <<"!">> \o b.v)

\* range = "A1:ZZ1": the default applies to an undefined range only.
DefaultHeaderRange == Str(<<"A", "1", ":", "Z", "Z", "1">>)

fetchSheetsCall(body) ==
    [api |-> "spreadsheets.get",
     spreadsheetId |-> body.spreadsheetId,
     fields |-> "sheets.properties.title"]

fetchHeadersCall(body) ==
    [api |-> "spreadsheets.values.get",
     spreadsheetId |-> body.spreadsheetId,
     range |-> Bang(body.sheetName,
                    IF body.range = Undef THEN DefaultHeaderRange ELSE body.range),
     valueRenderOption |-> "FORMATTED_VALUE",
     dateTimeRenderOption |-> "FORMATTED_STRING"]

\* Faulty variant: fetchData falls back to the header range.
fetchDataCallDefaultRange(body) ==
    [api |-> "spreadsheets.values.get",
     spreadsheetId |-> body.spreadsheetId,
     range |-> Bang(body.sheetName,
                    IF Truthy(body.range) THEN body.range ELSE DefaultHeaderRange),
     valueRenderOption |-> "FORMATTED_VALUE",
     dateTimeRenderOption |-> "FORMATTED_STRING"]

fetchDataCall(body) ==
    [api |-> "spreadsheets.values.get",
     spreadsheetId |-> body.spreadsheetId,
     range |-> IF Truthy(body.range) THEN Bang(body.sheetName, body.range)
               ELSE body.sheetName,
     valueRenderOption |-> "FORMATTED_VALUE",
     dateTimeRenderOption |-> "FORMATTED_STRING"]

testAccessCall(body) ==
    [api |-> "spreadsheets.get",
     spreadsheetId |-> body.spreadsheetId,
     fields |-> "properties.title"]

UpstreamCall(ep, body) ==
    CASE ep = "fetchSheets" -> fetchSheetsCall(body)
      [] ep = "fetchHeaders" -> fetchHeadersCall(body)
      [] ep = "fetchData" -> fetchDataCall(body)
      [] ep = "testAccess" -> testAccessCall(body)

(***************************************************************************)
(* Response shaping.  A shaping operator gives [ok |-> TRUE, response] or, *)
(* when the code throws on the way, [ok |-> FALSE, error].                 *)
(***************************************************************************)
Ok(status, body) == [ok |-> TRUE, response |-> [status |-> status, body |-> body]]
Throw(error) == [ok |-> FALSE, error |-> error]

\* Reading .title of an undefined sheet.properties.
TitleTypeError ==
    [code |-> Undef,
     message |-> Str("Cannot read properties of undefined (reading 'title')")]

\* Faulty variant: the titles come out in reverse.
SheetTitlesReversed(sheets) ==
    [i \in 1..Len(sheets.v) |-> sheets.v[Len(sheets.v) + 1 - i].properties.title]

\* response.data.sheets.map(sheet => sheet.properties.title)
SheetTitles(sheets) ==
    [i \in 1..Len(sheets.v) |-> sheets.v[i].properties.title]

fetchSheetsShape(body, data) ==
    IF Truthy(data.sheets)
    THEN IF \E i \in 1..Len(data.sheets.v) : data.sheets.v[i].properties = Undef
         THEN Throw(TitleTypeError)
         ELSE LET sheetNames == SheetTitles(data.sheets)
              IN Ok(200, [success |-> TRUE,
                          sheetNames |-> sheetNames,
                          count |-> Len(sheetNames),
                          spreadsheetId |-> body.spreadsheetId])
    ELSE Ok(200, [success |-> TRUE,
                  sheetNames |-> <<>>,
                  count |-> 0,
                  spreadsheetId |-> body.spreadsheetId])

\* String.prototype.trim: white space is stripped from both ends.
WhiteSpace == {" ", "\t", "\n"}

RECURSIVE TrimStart(_)
TrimStart(s) ==
    IF s # <<>> /\ Head(s) \in WhiteSpace THEN TrimStart(Tail(s)) ELSE s

RECURSIVE TrimEnd(_)
TrimEnd(s) ==
    IF s # <<>> /\ s[Len(s)] \in WhiteSpace
    THEN TrimEnd(SubSeq(s, 1, Len(s) - 1))
    ELSE s

Trim(x) == Str(TrimEnd(TrimStart(x.v)))

\* Faulty variant: the header is not trimmed before it is tested.
KeepHeaderUntrimmed(header) == Truthy(header)

\* (header) => header && header.trim() !== ""
KeepHeader(header) == Truthy(header) /\ Trim(header) # Str(<<>>)

\* response.data.values?.[0] || []
FirstRow(values) ==
    IF values = Undef THEN <<>>
    ELSE IF Len(values.v) = 0 THEN <<>>
    ELSE values.v[1]

fetchHeadersShape(body, data) ==
    LET headers == FirstRow(data.values)
        filteredHeaders == SelectSeq(headers, KeepHeader)
    IN Ok(200, [success |-> TRUE,
                headers |-> filteredHeaders,
                count |-> Len(filteredHeaders),
                sheetName |-> body.sheetName,
                spreadsheetId |-> body.spreadsheetId])

fetchDataShape(body, data) ==
    LET rows == IF Truthy(data.values) THEN data.values.v ELSE <<>>
    IN Ok(200, [success |-> TRUE,
                data |-> rows,
                rowCount |-> Len(rows),
                sheetName |-> body.sheetName,
                spreadsheetId |-> body.spreadsheetId])

\* response.data.properties?.title || "Unknown"
testAccessShape(body, data) ==
    LET title == Or(Prop(data.properties, "title"), Str("Unknown"))
    IN Ok(200, [success |-> TRUE,
                hasAccess |-> TRUE,
                spreadsheetTitle |-> title,
                spreadsheetId |-> body.spreadsheetId])

Shape(ep, body, data) ==
    CASE ep = "fetchSheets" -> fetchSheetsShape(body, data)
      [] ep = "fetchHeaders" -> fetchHeadersShape(body, data)
      [] ep = "fetchData" -> fetchDataShape(body, data)
      [] ep = "testAccess" -> testAccessShape(body, data)

(***************************************************************************)
(* The catch block of each handler.                                        *)
(***************************************************************************)
PermissionDenied ==
    Str("Permission denied - ensure service account has access to the sheet")
SpreadsheetNotFound == Str("Spreadsheet not found - check the spreadsheet ID")
SheetNotFound == Str("Sheet not found - check the sheet name and spreadsheet ID")
InvalidRange == Str("Invalid range - check the range format")
UnknownError == Str("UNKNOWN_ERROR")

\* Faulty variant: the upstream message is looked at before the code.
fetchSheetsErrorMessageFirst(error) ==
    IF Truthy(error.message) THEN error.message
    ELSE IF StrictEqNum(error.code, 403) THEN PermissionDenied
    ELSE IF StrictEqNum(error.code, 404) THEN SpreadsheetNotFound
    ELSE Str("Failed to fetch sheets")

fetchSheetsErrorMessage(error) ==
    IF StrictEqNum(error.code, 403) THEN PermissionDenied
    ELSE IF StrictEqNum(error.code, 404) THEN SpreadsheetNotFound
    ELSE IF Truthy(error.message) THEN error.message
    ELSE Str("Failed to fetch sheets")

fetchHeadersErrorMessage(error) ==
    IF StrictEqNum(error.code, 403) THEN PermissionDenied
    ELSE IF StrictEqNum(error.code, 404) THEN SheetNotFound
    ELSE IF StrictEqNum(error.code, 400) THEN InvalidRange
    ELSE IF Truthy(error.message) THEN error.message
    ELSE Str("Failed to fetch headers")

fetchDataErrorMessage(error) ==
    IF StrictEqNum(error.code, 403) THEN PermissionDenied
    ELSE IF StrictEqNum(error.code, 404) THEN SheetNotFound
    ELSE IF Truthy(error.message) THEN error.message
    ELSE Str("Failed to fetch data")

\* Faulty variant: the sentinel is forgotten.
ErrorCodeRaw(error) == error.code

\* code: error.code || "UNKNOWN_ERROR"
ErrorCode(error) == Or(error.code, UnknownError)

\* res.status(500).json({success: false, error: errorMessage, code})
ErrorResponse(errorMessage, error) ==
    [status |-> 500,
     body |-> [success |-> FALSE,
               error |-> errorMessage,
               code |-> ErrorCode(error)]]

fetchSheetsCatch(error) == ErrorResponse(fetchSheetsErrorMessage(error), error)
fetchHeadersCatch(error) == ErrorResponse(fetchHeadersErrorMessage(error), error)
fetchDataCatch(error) == ErrorResponse(fetchDataErrorMessage(error), error)

\* Faulty variant: testAccess reports a failure as the other routes do.
testAccessCatch500(error) ==
    [status |-> 500,
     body |-> [success |-> FALSE,
               error |-> error.message,
               code |-> ErrorCode(error)]]

\* res.json({success: true, hasAccess: false, error: error.message, code}):
\* JSON.stringify leaves out a property whose value is undefined.
testAccessCatch(error) ==
    [status |-> 200,
     body |-> IF error.message = Undef
              THEN [success |-> TRUE,
                    hasAccess |-> FALSE,
                    code |-> ErrorCode(error)]
              ELSE [success |-> TRUE,
                    hasAccess |-> FALSE,
                    error |-> error.message,
                    code |-> ErrorCode(error)]]

Catch(ep, error) ==
    CASE ep = "fetchSheets" -> fetchSheetsCatch(error)
      [] ep = "fetchHeaders" -> fetchHeadersCatch(error)
      [] ep = "fetchData" -> fetchDataCatch(error)
      [] ep = "testAccess" -> testAccessCatch(error)

(***************************************************************************)
(* The middleware around the routes.                                       *)
(***************************************************************************)
\* Faulty variant: the underlying message is not passed on.
ErrorMiddlewareNoMessage(error) ==
    [status |-> 500,
     body |-> [success |-> FALSE,
               error |-> Str("Internal server error")]]

\* app.use((error, req, res, next) => ...)
ErrorMiddleware(error) ==
    [status |-> 500,
     body |-> [success |-> FALSE,
               error |-> Str("Internal server error"),
               message |-> error.message]]

AvailableEndpoints ==
    <<"GET /health", "POST /api/fetchSheets", "POST /api/fetchHeaders",
      "POST /api/fetchData", "POST /api/testAccess">>

NotFoundResponse ==
    [status |-> 404,
     body |-> [success |-> FALSE,
               error |-> Str("Endpoint not found"),
               availableEndpoints |-> AvailableEndpoints]]

HealthResponse(now) ==
    [status |-> 200,
     body |-> [status |-> "OK",
               message |-> "BookGX Backend is running",
               timestamp |-> now]]

(***************************************************************************)
(* The server as a state machine.                                          *)
(***************************************************************************)
Endpoints == {"fetchSheets", "fetchHeaders", "fetchData", "testAccess"}

\* A body express.json could not parse, and the error it raised.
Malformed(error) == [t |-> "malformed", error |-> error]

Idle == [pc |-> "idle", endpoint |-> "none", body |-> Undef]
NotCalled == [state |-> "none"]

Slots == 1..MaxInFlight

Init ==
    /\ req = [r \in Slots |-> Idle]
    /\ clients = [r \in Slots |-> <<>>]
    /\ calls = [r \in Slots |-> <<>>]
    /\ upstream = [r \in Slots |-> NotCalled]
    /\ responses = [r \in Slots |-> <<>>]

Respond(r, response) ==
    responses' = [responses EXCEPT ![r] = Append(@, response)]

\* new Date().toISOString()
Clock == {"2024-01-01T00:00:00.000Z"}

\* GET /health
Health(r) ==
    /\ req[r].pc = "idle"
    /\ \E now \in Clock : Respond(r, HealthResponse(now))
    /\ req' = [req EXCEPT ![r] = [pc |-> "done", endpoint |-> "health", body |-> Undef]]
    /\ UNCHANGED <<clients, calls, upstream>>

\* Any other route or method falls through to the 404 handler.
NotFound(r) ==
    /\ req[r].pc = "idle"
    /\ req' = [req EXCEPT ![r] = [pc |-> "done", endpoint |-> "unmatched", body |-> Undef]]
    /\ Respond(r, NotFoundResponse)
    /\ UNCHANGED <<clients, calls, upstream>>

\* express.json rejects the body: next(error) skips the route and reaches the
\* error-handling middleware.
JsonParseError(r, in) ==
    /\ req[r].pc = "idle"
    /\ \E ep \in Endpoints, error \in in.parseErrors :
          /\ req' = [req EXCEPT ![r] = [pc |-> "done", endpoint |-> ep, body |-> Malformed(error)]]
          /\ Respond(r, ErrorMiddleware(error))
    /\ UNCHANGED <<clients, calls, upstream>>

\* A POST handler from its first line to `await createSheetsClient(...)`:
\* createSheetsClient has no await of its own, so it has run to its end when
\* the handler suspends.
Handler(r, in) ==
    /\ req[r].pc = "idle"
    /\ \E ep \in Endpoints, body \in in.bodies, authThrown \in in.authThrows :
          IF Validate(ep, body) # Undef
          THEN /\ req' = [req EXCEPT ![r] = [pc |-> "done", endpoint |-> ep, body |-> body]]
               /\ Respond(r, Validate(ep, body))
               /\ UNCHANGED clients
          ELSE /\ req' = [req EXCEPT ![r] = [pc |-> "awaitClient", endpoint |-> ep, body |-> body]]
               /\ clients' = [clients EXCEPT ![r] =
                      Append(@, createSheetsClient(ServiceAccount(body.connection), authThrown))]
               /\ UNCHANGED responses
    /\ UNCHANGED <<calls, upstream>>

\* The handler resumes with the settled client: it issues the upstream call,
\* or lands in its catch block when createSheetsClient threw.
ClientSettled(r) ==
    /\ req[r].pc = "awaitClient"
    /\ LET settled == clients[r][Len(clients[r])]
       IN IF settled.ok
          THEN /\ calls' = [calls EXCEPT ![r] = Append(@, UpstreamCall(req[r].endpoint, req[r].body))]
               /\ upstream' = [upstream EXCEPT ![r] = [state |-> "pending"]]
               /\ req' = [req EXCEPT ![r].pc = "awaitUpstream"]
               /\ UNCHANGED responses
          ELSE /\ Respond(r, Catch(req[r].endpoint, settled.error))
               /\ req' = [req EXCEPT ![r].pc = "done"]
               /\ UNCHANGED <<calls, upstream>>
    /\ UNCHANGED clients

\* The upstream call resolves with response.data = data: the handler shapes
\* the response, and a throw while shaping lands in the same catch block.
UpstreamResolved(r, in) ==
    /\ req[r].pc = "awaitUpstream"
    /\ \E data \in in.data[req[r].endpoint] :
          /\ upstream' = [upstream EXCEPT ![r] = [state |-> "resolved", data |-> data]]
          /\ LET shaped == Shape(req[r].endpoint, req[r].body, data)
             IN IF shaped.ok
                THEN Respond(r, shaped.response)
                ELSE Respond(r, Catch(req[r].endpoint, shaped.error))
    /\ req' = [req EXCEPT ![r].pc = "done"]
    /\ UNCHANGED <<clients, calls>>

\* Faulty variant: a rejected call is issued once more before the catch
\* block answers.
UpstreamRejectedRetry(r, in) ==
    /\ req[r].pc = "awaitUpstream"
    /\ \E error \in in.errors :
          IF Len(calls[r]) < 2
          THEN /\ calls' = [calls EXCEPT ![r] = Append(@, UpstreamCall(req[r].endpoint, req[r].body))]
               /\ UNCHANGED <<req, clients, upstream, responses>>
          ELSE /\ upstream' = [upstream EXCEPT ![r] = [state |-> "rejected", error |-> error]]
               /\ Respond(r, Catch(req[r].endpoint, error))
               /\ req' = [req EXCEPT ![r].pc = "done"]
               /\ UNCHANGED <<clients, calls>>

\* The upstream call rejects: the catch block answers.
UpstreamRejected(r, in) ==
    /\ req[r].pc = "awaitUpstream"
    /\ \E error \in in.errors :
          /\ upstream' = [upstream EXCEPT ![r] = [state |-> "rejected", error |-> error]]
          /\ Respond(r, Catch(req[r].endpoint, error))
    /\ req' = [req EXCEPT ![r].pc = "done"]
    /\ UNCHANGED <<clients, calls>>

\* The exchange is over; nothing of it is kept, and the slot takes the next
\* request.
Close(r) ==
    /\ req[r].pc = "done"
    /\ req' = [req EXCEPT ![r] = Idle]
    /\ clients' = [clients EXCEPT ![r] = <<>>]
    /\ calls' = [calls EXCEPT ![r] = <<>>]
    /\ upstream' = [upstream EXCEPT ![r] = NotCalled]
    /\ responses' = [responses EXCEPT ![r] = <<>>]

(***************************************************************************)
(* The inputs: request bodies, upstream results and upstream failures.     *)
(***************************************************************************)
\* All sequences over S of length at most n.
SeqsUpTo(S, n) == UNION {[1..k -> S] : k \in 0..n}

Obj(clientEmail, privateKey, projectId) ==
    [t |-> "object", clientEmail |-> clientEmail,
     privateKey |-> privateKey, projectId |-> projectId]

PlainKey == Str(<<"K">>)
EscapedKey == Str(<<"K", "\\", "n", "K">>)

\* req.body.connection: absent, a string, or an object whose fields are
\* absent, empty or set (and a private key that is a number).
Connections ==
    {Undef, Str(<<"c">>)} \cup
    {Obj(e, k, p) : e \in {Undef, Str(""), Str("svc@project.iam")},
                    k \in {Undef, Str(<<>>), PlainKey, EscapedKey, Num(123)},
                    p \in {Undef, Str("project")}}

Bodies ==
    [t : {"object"},
     spreadsheetId : {Undef, Str(""), Str("sheet-id")},
     sheetName : {Undef, Str(<<>>), Str(<<"S">>)},
     connection : Connections,
     range : {Undef, Str(<<>>), Str(<<"A", "1">>)}]

\* What the GoogleAuth constructor may throw.
AuthThrows == {Undef, [code |-> Undef, message |-> Str("invalid credentials")]}

\* A rejected upstream call: an error with or without a code and a message.
ErrorCodes == {Undef, Num(400), Num(403), Num(404), Num(500), Str("ECONNRESET")}
ErrorTexts == {Undef, Str(""), Str("upstream said no")}
Errors == [code : ErrorCodes, message : ErrorTexts]

ParseErrors == {[message |-> Str("Unexpected token } in JSON at position 1")]}

\* response.data of spreadsheets.get with fields=sheets.properties.title
Sheet(title) == [properties |-> [t |-> "object", title |-> Str(title)]]
BareSheet == [properties |-> Undef]
SheetsData ==
    {[sheets |-> Undef]} \cup
    {[sheets |-> Arr(s)] : s \in SeqsUpTo({Sheet("Q1"), Sheet("Q2"), BareSheet}, MaxSheets)}

\* response.data of spreadsheets.values.get, as fetchHeaders reads it: the
\* first row holds cells of every spelling, a second row may follow.
Chars == {" ", "a"}
Cells == {Str(c) : c \in SeqsUpTo(Chars, MaxCellLen)}
HeaderRows == SeqsUpTo(Cells, MaxCols)
HeadersData ==
    {[values |-> Undef], [values |-> Arr(<<>>)]} \cup
    {[values |-> Arr(<<row>>)] : row \in HeaderRows} \cup
    {[values |-> Arr(<<row, <<Str(<<"a">>)>> >>)] : row \in HeaderRows}

\* The same, as fetchData reads it: rows of differing lengths.
DataCells == {Str(<<"a">>), Str(<<>>)}
DataData ==
    {[values |-> Undef]} \cup
    {[values |-> Arr(v)] : v \in SeqsUpTo(SeqsUpTo(DataCells, MaxCols), MaxRows)}

\* response.data of spreadsheets.get with fields=properties.title
AccessData ==
    {[properties |-> Undef]} \cup
    {[properties |-> [t |-> "object", title |-> ti]] :
        ti \in {Undef, Str(""), Str("Budget")}}

\* Every input above: what one exchange can meet.
AllInputs ==
    [bodies |-> Bodies,
     authThrows |-> AuthThrows,
     parseErrors |-> ParseErrors,
     errors |-> Errors,
     data |-> [fetchSheets |-> SheetsData, fetchHeaders |-> HeadersData,
               fetchData |-> DataData, testAccess |-> AccessData]]

\* A few of them, for exchanges in flight together: one body that passes
\* each validation, one that fails it, one whose private key is a number.
GoodBody ==
    [t |-> "object",
     spreadsheetId |-> Str("sheet-id"), sheetName |-> Str(<<"S">>),
     connection |-> Obj(Str("svc@project.iam"), EscapedKey, Str("project")),
     range |-> Undef]
FewInputs ==
    [bodies |-> {GoodBody,
                 [GoodBody EXCEPT !.spreadsheetId = Undef],
                 [GoodBody EXCEPT !.connection.privateKey = Num(123)]},
     authThrows |-> AuthThrows,
     parseErrors |-> ParseErrors,
     errors |-> {[code |-> Num(403), message |-> Str("upstream said no")],
                 [code |-> Undef, message |-> Undef]},
     data |-> [fetchSheets |-> {[sheets |-> Arr(<<Sheet("Q1")>>)]},
               fetchHeaders |-> {[values |-> Arr(<<<<Str(<<"a">>)>>>>)]},
               fetchData |-> {[values |-> Undef]},
               testAccess |-> {[properties |-> Undef]}]]

Step(r, in) ==
    \/ Health(r)
    \/ NotFound(r)
    \/ JsonParseError(r, in)
    \/ Handler(r, in)
    \/ ClientSettled(r)
    \/ UpstreamResolved(r, in)
    \/ UpstreamRejected(r, in)
    \/ Close(r)

\* Exchanges in flight together, interleaved at every await.
Next == \E r \in Slots : Step(r, FewInputs)
Spec == Init /\ [][Next]_vars

\* One exchange at a time, over every input.
NextOne == Step(1, AllInputs)
SpecOne == Init /\ [][NextOne]_vars

(***************************************************************************)
(* Vocabulary of the properties below.                                     *)
(***************************************************************************)
Done(r) == req[r].pc = "done"
Posted(r) == req[r].pc # "idle" /\ req[r].endpoint \in Endpoints
Parsed(r) == Posted(r) /\ req[r].body.t # "malformed"
Response(r) == responses[r][1]
Answered(r) == Done(r) /\ Len(responses[r]) = 1
RangeEndpoints == {"fetchHeaders", "fetchData"}

\* A field of the body is missing or falsy, as the contract words it.
Missing(x) == x = Undef \/ (x.t = "string" /\ Len(x.v) = 0)
IncompleteBody(ep, body) ==
    \/ Missing(body.spreadsheetId)
    \/ ep \in RangeEndpoints /\ Missing(body.sheetName)
    \/ Missing(body.connection)
    \/ body.connection.t # "object"
    \/ \E f \in {"clientEmail", "privateKey", "projectId"} : Missing(body.connection[f])

\* C1: a POST whose body lacks spreadsheetId, sheetName (fetchHeaders and
\* fetchData) or any part of the credentials is answered 400, and neither
\* createSheetsClient nor an upstream call is ever invoked for it.
C1_IncompleteBodyRejected ==
    \A r \in Slots :
        (Parsed(r) /\ IncompleteBody(req[r].endpoint, req[r].body)) =>
            /\ Answered(r)
            /\ Response(r).status = 400
            /\ clients[r] = <<>>
            /\ calls[r] = <<>>
            /\ upstream[r] = NotCalled

\* fetchData with a spreadsheetId and full credentials but an empty sheetName
\* has been answered 400.
C1_Witness ==
    \E r \in Slots :
        /\ Parsed(r) /\ req[r].endpoint = "fetchData"
        /\ req[r].body.spreadsheetId = Str("sheet-id")
        /\ req[r].body.sheetName = Str(<<>>)
        /\ ~CredentialsMissing(req[r].body.connection)
        /\ Answered(r) /\ Response(r).status = 400

\* The error a handler's catch block received, when it received one: the
\* rejection of the upstream call, what createSheetsClient threw, or what
\* shaping the response threw.
ShapingThrew(r) ==
    /\ upstream[r].state = "resolved"
    /\ req[r].endpoint = "fetchSheets"
    /\ upstream[r].data.sheets # Undef
    /\ \E i \in 1..Len(upstream[r].data.sheets.v) :
          upstream[r].data.sheets.v[i] = BareSheet
ClientThrew(r) == clients[r] # <<>> /\ ~clients[r][1].ok
Caught(r) ==
    Done(r) /\ (upstream[r].state = "rejected" \/ ClientThrew(r) \/ ShapingThrew(r))
CaughtError(r) ==
    IF upstream[r].state = "rejected" THEN upstream[r].error
    ELSE IF ClientThrew(r) THEN clients[r][1].error
    ELSE TitleTypeError
HasCode(error, n) == error.code = Num(n)
CodeOrSentinel(error) ==
    IF error.code = Undef THEN Str("UNKNOWN_ERROR") ELSE error.code

\* C2: a testAccess request that passes validation is always answered 200:
\* with hasAccess=true and the spreadsheet's title when the upstream call
\* succeeds, with success=true, hasAccess=false, the failure's message and
\* its code on any failure; the same upstream failure on the other three
\* endpoints is answered 500 with success=false.
C2_TestAccessAlways200 ==
    \A r \in Slots :
        /\ (Done(r) /\ Parsed(r) /\ req[r].endpoint = "testAccess" /\ clients[r] # <<>>) =>
              /\ Answered(r)
              /\ Response(r).status = 200
              /\ Response(r).body.success = TRUE
              /\ IF Caught(r)
                 THEN /\ Response(r).body.hasAccess = FALSE
                      /\ Response(r).body.code = CodeOrSentinel(CaughtError(r))
                      /\ CaughtError(r).message # Undef =>
                            Response(r).body.error = CaughtError(r).message
                 ELSE /\ Response(r).body.hasAccess = TRUE
                      /\ "spreadsheetTitle" \in DOMAIN Response(r).body
                      /\ LET p == upstream[r].data.properties
                         IN (p # Undef /\ p.title # Undef /\ p.title # Str("")) =>
                               Response(r).body.spreadsheetTitle = p.title
        /\ (Done(r) /\ req[r].endpoint \in Endpoints \ {"testAccess"}
               /\ upstream[r].state = "rejected") =>
              /\ Answered(r)
              /\ Response(r).status = 500
              /\ Response(r).body.success = FALSE

\* testAccess answered 200 with hasAccess=false after the upstream call was
\* rejected with code 403.
C2_Witness ==
    \E r \in Slots :
        /\ Done(r) /\ req[r].endpoint = "testAccess"
        /\ upstream[r].state = "rejected"
        /\ HasCode(upstream[r].error, 403)
        /\ upstream[r].error.message = Str("upstream said no")
        /\ Response(r).status = 200
        /\ Response(r).body.hasAccess = FALSE
        /\ Response(r).body.error = Str("upstream said no")

\* The error text the contract assigns to an upstream failure.
GenericText(ep) ==
    CASE ep = "fetchSheets" -> Str("Failed to fetch sheets")
      [] ep = "fetchHeaders" -> Str("Failed to fetch headers")
      [] ep = "fetchData" -> Str("Failed to fetch data")
NotFoundText(ep) ==
    IF ep = "fetchSheets" THEN SpreadsheetNotFound ELSE SheetNotFound
HasMessage(error) == error.message # Undef /\ error.message # Str("")
ContractText(ep, error) ==
    IF HasCode(error, 403) THEN PermissionDenied
    ELSE IF HasCode(error, 404) THEN NotFoundText(ep)
    ELSE IF HasMessage(error) THEN error.message
    ELSE GenericText(ep)
FetchRejected(r) ==
    /\ Done(r)
    /\ req[r].endpoint \in Endpoints \ {"testAccess"}
    /\ upstream[r].state = "rejected"

\* C3 as stated: on fetchSheets, fetchHeaders and fetchData an upstream
\* failure is answered 500 with the permission-denied text for code 403, the
\* not-found text for code 404, and for any other code the upstream message,
\* or the endpoint's generic text when there is no message.
C3_AsStated ==
    \A r \in Slots :
        FetchRejected(r) =>
            /\ Response(r).status = 500
            /\ Response(r).body.error = ContractText(req[r].endpoint, upstream[r].error)

\* C3 amended: the same, for every code but 400 on the two range endpoints,
\* whose text is the subject of C4.
C3_ErrorTextByCode ==
    \A r \in Slots :
        (FetchRejected(r)
            /\ ~(req[r].endpoint \in RangeEndpoints /\ HasCode(upstream[r].error, 400))) =>
            /\ Response(r).status = 500
            /\ Response(r).body.error = ContractText(req[r].endpoint, upstream[r].error)

\* fetchSheets answered with the permission-denied text although the
\* rejection carried a message of its own.
C3_Witness ==
    \E r \in Slots :
        /\ FetchRejected(r) /\ req[r].endpoint = "fetchSheets"
        /\ HasCode(upstream[r].error, 403)
        /\ upstream[r].error.message = Str("upstream said no")
        /\ Response(r).body.error = PermissionDenied

\* C4: on fetchHeaders and fetchData an upstream failure with code 400 is
\* answered 500 with the invalid-range text; on fetchSheets code 400 has no
\* text of its own.
C4_InvalidRangeOnBoth ==
    \A r \in Slots :
        (FetchRejected(r) /\ HasCode(upstream[r].error, 400)) =>
            /\ Response(r).status = 500
            /\ req[r].endpoint \in RangeEndpoints =>
                  Response(r).body.error = InvalidRange
            /\ req[r].endpoint = "fetchSheets" =>
                  Response(r).body.error =
                      ContractText("fetchSheets", upstream[r].error)

\* A response that reports a failure: an error status, or the negative
\* access flag of testAccess.
FailureResponse(resp) ==
    \/ resp.status >= 400
    \/ "hasAccess" \in DOMAIN resp.body /\ resp.body.hasAccess = FALSE
CarriesCode(r) ==
    /\ "code" \in DOMAIN Response(r).body
    /\ Caught(r)
    /\ Response(r).body.code = CodeOrSentinel(CaughtError(r))

\* C5 as stated: every failure response the service sends carries a code:
\* the upstream failure's code, or the sentinel UNKNOWN_ERROR.  (Stated here
\* of the four POST routes, which the 404 of an unmatched route fails too.)
C5_AsStated ==
    \A r \in Slots :
        (Done(r) /\ Posted(r) /\ FailureResponse(Response(r))) => CarriesCode(r)

\* C5 amended: every failure response written by a route's catch block (the
\* 500 of the three fetch endpoints, the hasAccess=false of testAccess)
\* carries the caught failure's code, or UNKNOWN_ERROR when it has none; the
\* 400 of a rejected body, the 404 of an unmatched route and the 500 of the
\* top-level handler carry an error text and no code.
C5_CodeOnCaughtFailures ==
    \A r \in Slots :
        (Done(r) /\ FailureResponse(Response(r))) =>
            /\ "error" \in DOMAIN Response(r).body \/ CaughtError(r).message = Undef
            /\ IF Caught(r)
               THEN CarriesCode(r)
               ELSE /\ "code" \notin DOMAIN Response(r).body
                    /\ \/ Response(r).status = 400 /\ Parsed(r) /\ clients[r] = <<>>
                       \/ Response(r).status = 404 /\ req[r].endpoint = "unmatched"
                       \/ Response(r).status = 500 /\ Posted(r) /\ ~Parsed(r)

\* A fetch endpoint answered 500 with the sentinel code after a rejection
\* that carried no code.
C5_Witness ==
    \E r \in Slots :
        /\ FetchRejected(r)
        /\ upstream[r].error.code = Undef
        /\ Response(r).status = 500
        /\ Response(r).body.code = Str("UNKNOWN_ERROR")

\* An error was raised while the request was handled.
Raised(r) == Done(r) /\ Posted(r) /\ (~Parsed(r) \/ Caught(r))
RaisedError(r) == IF ~Parsed(r) THEN req[r].body.error ELSE CaughtError(r)
TopLevelAnswer(r) ==
    /\ Response(r).status = 500
    /\ Response(r).body.error = Str("Internal server error")
    /\ "message" \in DOMAIN Response(r).body
    /\ Response(r).body.message = RaisedError(r).message

\* C6 as stated: any error raised while a request is handled (body parsing,
\* client construction, the upstream call, response shaping) is answered by
\* the top-level handler with 500, 'Internal server error' and the underlying
\* message, testAccess excepted; the request ends with exactly one response.
C6_AsStated ==
    \A r \in Slots :
        /\ Done(r) => Len(responses[r]) = 1
        /\ (Raised(r) /\ ~(Parsed(r) /\ req[r].endpoint = "testAccess")) =>
              TopLevelAnswer(r)

\* C6 amended: only an error raised before the route runs (body parsing) is
\* answered by the top-level handler with 500, 'Internal server error' and
\* the underlying message; an error raised inside a route (client
\* construction, the upstream call, response shaping) is answered by that
\* route's own catch block: 500 with success=false, the route's error text
\* and a code, or 200 with hasAccess=false on testAccess.  Either way the
\* request ends with exactly one response and the exchange can be closed
\* for the next request.
C6_ErrorsAnsweredOnce ==
    \A r \in Slots :
        /\ Len(responses[r]) <= 1
        /\ Done(r) => Len(responses[r]) = 1 /\ ENABLED Close(r)
        /\ Raised(r) =>
              IF ~Parsed(r) THEN TopLevelAnswer(r)
              ELSE /\ "message" \notin DOMAIN Response(r).body
                   /\ "code" \in DOMAIN Response(r).body
                   /\ IF req[r].endpoint = "testAccess"
                      THEN /\ Response(r).status = 200
                           /\ Response(r).body.hasAccess = FALSE
                      ELSE /\ Response(r).status = 500
                           /\ Response(r).body.success = FALSE
                           /\ Response(r).body.error # Str("Internal server error")

\* A body that would not parse has been answered by the top-level handler.
C6_Witness ==
    \E r \in Slots :
        /\ Raised(r) /\ ~Parsed(r)
        /\ Response(r).status = 500
        /\ Response(r).body.error = Str("Internal server error")
        /\ Response(r).body.message = req[r].body.error.message

\* The handler answered from the resolved upstream call.
Succeeded(r, ep) ==
    /\ Done(r) /\ req[r].endpoint = ep
    /\ upstream[r].state = "resolved"
    /\ ~ShapingThrew(r)

\* An entry that is empty or made of white space only.
Blank(cell) == \A i \in 1..Len(cell.v) : cell.v[i] \in {" ", "\t", "\n"}
UpstreamRows(r) ==
    IF upstream[r].data.values = Undef THEN <<>> ELSE upstream[r].data.values.v
UpstreamFirstRow(r) ==
    IF UpstreamRows(r) = <<>> THEN <<>> ELSE UpstreamRows(r)[1]
\* The entries of row that are not blank, in the order of row.
RECURSIVE WithoutBlanks(_)
WithoutBlanks(row) ==
    IF row = <<>> THEN <<>>
    ELSE IF Blank(Head(row)) THEN WithoutBlanks(Tail(row))
    ELSE <<Head(row)>> \o WithoutBlanks(Tail(row))

\* C7: the headers of a successful fetchHeaders are the first upstream row
\* (empty when there is none) without its empty and white-space-only
\* entries, the others unchanged and in order, and count is their number.
C7_HeadersFiltered ==
    \A r \in Slots :
        Succeeded(r, "fetchHeaders") =>
            /\ Response(r).status = 200
            /\ Response(r).body.headers = WithoutBlanks(UpstreamFirstRow(r))
            /\ Response(r).body.count = Len(Response(r).body.headers)

\* A first row holding a white-space-only entry and an entry with white
\* space around its text: the first is dropped, the second kept as it came.
C7_Witness ==
    \E r \in Slots :
        /\ Succeeded(r, "fetchHeaders")
        /\ UpstreamFirstRow(r) = <<Str(<<" ">>), Str(<<"a", " ">>)>>
        /\ Response(r).body.headers = <<Str(<<"a", " ">>)>>
        /\ Response(r).body.count = 1

\* A range was given in the body.
RangeGiven(body) == body.range # Undef /\ body.range # Str(<<>>)

\* C8: fetchData asks the upstream for 'sheetName!range' when the body gives
\* a range and for the bare sheetName when it gives none; the rows come back
\* in data unchanged, rowCount is their number, and an absent value set gives
\* data=[] and rowCount=0.
C8_DataRangeAndRows ==
    \A r \in Slots :
        /\ (req[r].endpoint = "fetchData" /\ calls[r] # <<>>) =>
              calls[r][1].range =
                  IF RangeGiven(req[r].body)
                  THEN Str(req[r].body.sheetName.v \o <<"!">> \o req[r].body.range.v)
                  ELSE req[r].body.sheetName
        /\ Succeeded(r, "fetchData") =>
              /\ Response(r).status = 200
              /\ Response(r).body.data = UpstreamRows(r)
              /\ Response(r).body.rowCount = Len(UpstreamRows(r))
              /\ upstream[r].data.values = Undef =>
                    Response(r).body.data = <<>> /\ Response(r).body.rowCount = 0

\* Rows of two cells and of one cell came back as they were, from a call
\* without a range.
C8_Witness ==
    \E r \in Slots :
        /\ Succeeded(r, "fetchData")
        /\ ~RangeGiven(req[r].body)
        /\ calls[r][1].range = Str(<<"S">>)
        /\ UpstreamRows(r) = <<<<Str(<<"a">>), Str(<<>>)>>, <<Str(<<"a">>)>>>>
        /\ Response(r).body.data = UpstreamRows(r)
        /\ Response(r).body.rowCount = 2

\* C9: the sheetNames of a successful fetchSheets are the upstream sheets'
\* titles in the upstream's order and count is their number; a spreadsheet
\* whose sheet list is absent or empty is answered with success,
\* sheetNames=[] and count=0.
C9_SheetNamesInOrder ==
    \A r \in Slots :
        Succeeded(r, "fetchSheets") =>
            LET sheets == upstream[r].data.sheets
                n == IF sheets = Undef THEN 0 ELSE Len(sheets.v)
            IN /\ Response(r).status = 200
               /\ Response(r).body.success = TRUE
               /\ Len(Response(r).body.sheetNames) = n
               /\ \A i \in 1..n :
                     Response(r).body.sheetNames[i] = sheets.v[i].properties.title
               /\ Response(r).body.count = n
               /\ n = 0 => Response(r).body.sheetNames = <<>>

\* Two sheets came back Q2 before Q1 and were answered in that order.
C9_Witness ==
    \E r \in Slots :
        /\ Succeeded(r, "fetchSheets")
        /\ upstream[r].data.sheets = Arr(<<Sheet("Q2"), Sheet("Q1")>>)
        /\ Response(r).body.sheetNames = <<Str("Q2"), Str("Q1")>>
        /\ Response(r).body.count = 2

\* C10: across every interleaving, a request constructs at most one client
\* and issues at most one upstream call, the call only after its validation
\* passed and its client was constructed, a failed call is not issued again,
\* and the single response is sent only after the call returned or failed.
C10_OneClientOneCallOneResponse ==
    \A r \in Slots :
        /\ Len(clients[r]) <= 1
        /\ Len(calls[r]) <= 1
        /\ Len(responses[r]) <= 1
        /\ clients[r] # <<>> =>
              Parsed(r) /\ ~IncompleteBody(req[r].endpoint, req[r].body)
        /\ calls[r] # <<>> => clients[r] # <<>> /\ clients[r][1].ok
        /\ (upstream[r].state # "none") = (calls[r] # <<>>)
        /\ upstream[r].state = "pending" => responses[r] = <<>>
        /\ (responses[r] # <<>> /\ calls[r] # <<>>) =>
              upstream[r].state \in {"resolved", "rejected"}
        /\ (responses[r] # <<>>) = Done(r)

\* One request has been answered after its call was rejected while another
\* still waits for its own call.
C10_Witness ==
    \E r1 \in Slots, r2 \in Slots :
        /\ r1 # r2
        /\ Done(r1) /\ upstream[r1].state = "rejected"
        /\ Len(calls[r1]) = 1 /\ Len(responses[r1]) = 1
        /\ req[r2].pc = "awaitUpstream" /\ upstream[r2].state = "pending"

====
